---- MODULE Spec2Model ----
(***************************************************************************)
(* A model of the build pipeline of the vibe-firebase-website repository:  *)
(* the Environment Injector (scripts/inject-env.js) and the Asset Copier   *)
(* (scripts/build-assets.js), and of the page's UIModule                   *)
(* (src/js/modules/ui.js).                                                 *)
(*                                                                         *)
(* A JavaScript string is a sequence of one-character strings.  A file     *)
(* system is a function from the existing paths (sequences of names) to    *)
(* nodes.                                                                  *)
(***************************************************************************)
EXTENDS Integers, Sequences, FiniteSets, TLC

VARIABLES
    pc,          \* position of the script being modelled
    content,     \* replacePlaceholders: the content argument
    envVars,     \* replacePlaceholders: the mapping, in Object.keys order
    result,      \* replacePlaceholders: the returned string (with origins)
    envFile,     \* loadEnvFile: the text of the .env file
    loaded,      \* loadEnvFile: the returned mapping
    fs,          \* the file system below the project root
    before,      \* the file system when the last run of a script started
    exit,        \* the exit status of the last run of a script
    out,         \* what the last run printed, but for its progress lines
    firstOut,    \* the destination tree the first successful injection left
    runs,        \* the number of runs of the scripts so far
    streak,      \* the runs of the last script in succession, nothing in between
    ui,          \* the page: the elements UIModule holds, and the avatar's loading
    auth,        \* AuthModule and the SDK behind it
    app          \* App: the configuration and the sign-ins under way

vars == <<pc, content, envVars, result, envFile, loaded, fs, before, exit, out, firstOut, runs,
          streak, ui, auth, app>>

(***************************************************************************)
(* Bounds of the model.                                                    *)
(***************************************************************************)
MaxPieces == 2
MaxKeys == 2
MaxLines == 2
MaxSrcNodes == 2
MaxDestNodes == 1
MaxRuns == 2

(***************************************************************************)
(* Strings.                                                                *)
(***************************************************************************)
Min(S) == CHOOSE x \in S : \A y \in S : x <= y
Max(S) == CHOOSE x \in S : \A y \in S : x >= y

\* The characters String.prototype.trim removes (those the inputs use).
IsWhiteSpace(c) == c \in {" ", "\t", "\r", "\n"}

trim(s) ==
    LET keep == {i \in 1..Len(s) : ~IsWhiteSpace(s[i])}
    IN  IF keep = {} THEN <<>> ELSE SubSeq(s, Min(keep), Max(keep))

startsWith(s, p) == Len(s) >= Len(p) /\ SubSeq(s, 1, Len(p)) = p

\* s.includes(p)
includes(s, p) == \E i \in 1..(Len(s) - Len(p) + 1) : SubSeq(s, i, i + Len(p) - 1) = p

\* s.split(sep) for a one-character separator
RECURSIVE split(_, _)
split(s, sep) ==
    LET at == {i \in 1..Len(s) : s[i] = sep}
    IN  IF at = {} THEN <<s>>
        ELSE <<SubSeq(s, 1, Min(at) - 1)>> \o split(SubSeq(s, Min(at) + 1, Len(s)), sep)

\* parts.join(sep)
RECURSIVE join(_, _)
join(parts, sep) ==
    IF parts = <<>> THEN <<>>
    ELSE IF Len(parts) = 1 THEN parts[1]
    ELSE parts[1] \o <<sep>> \o join(Tail(parts), sep)

(***************************************************************************)
(* replacePlaceholders (scripts/inject-env.js).                            *)
(***************************************************************************)
\* The character class of the escaping replace: [.*+?^${}()|[\]\\]
RegExpSpecial == {".", "*", "+", "?", "^", "$", "{", "}", "(", ")", "|", "[", "]", "\\"}

\* A faulty variant of EscapeRegExp: the placeholder is used as a pattern as it is.
EscapeRegExpNone(s) == s

\* placeholder.replace(/[.*+?^${}()|[\]\\]/g, '\\$&')
RECURSIVE EscapeRegExp(_)
EscapeRegExp(s) ==
    IF s = <<>> THEN <<>>
    ELSE (IF Head(s) \in RegExpSpecial THEN <<"\\", Head(s)>> ELSE <<Head(s)>>)
         \o EscapeRegExp(Tail(s))

\* new RegExp(source, 'g'): the atoms of the pattern.  An escaped character
\* is that character; an unescaped `.` is any character but a line
\* terminator; a brace that starts no quantifier, and every other character,
\* is itself.
RECURSIVE RegExp(_)
RegExp(source) ==
    IF source = <<>> THEN <<>>
    ELSE IF Head(source) = "\\" /\ Len(source) >= 2
         THEN <<[any |-> FALSE, ch |-> source[2]]>> \o RegExp(SubSeq(source, 3, Len(source)))
    ELSE IF Head(source) = "."
         THEN <<[any |-> TRUE, ch |-> "."]>> \o RegExp(Tail(source))
    ELSE <<[any |-> FALSE, ch |-> Head(source)]>> \o RegExp(Tail(source))

AtomMatches(atom, c) == IF atom.any THEN c \notin {"\n", "\r"} ELSE c = atom.ch

\* Whether the pattern matches str at index i.
MatchAt(atoms, str, i) ==
    /\ i + Len(atoms) - 1 <= Len(str)
    /\ \A j \in 1..Len(atoms) : AtomMatches(atoms[j], str[i + j - 1])

\* GetSubstitution of String.prototype.replace for a pattern without capture
\* groups: $$ is a dollar, $& the match, $` the text before the match, $' the
\* text after it; any other character, a lone dollar included, is itself.
RECURSIVE GetSubstitution(_, _, _, _)
GetSubstitution(matched, str, position, replacement) ==
    IF replacement = <<>> THEN <<>>
    ELSE IF Head(replacement) = "$" /\ Len(replacement) >= 2
              /\ replacement[2] \in {"$", "&", "`", "'"}
         THEN (CASE replacement[2] = "$" -> <<"$">>
                 [] replacement[2] = "&" -> matched
                 [] replacement[2] = "`" -> SubSeq(str, 1, position - 1)
                 [] replacement[2] = "'" -> SubSeq(str, position + Len(matched), Len(str)))
              \o GetSubstitution(matched, str, position, SubSeq(replacement, 3, Len(replacement)))
    ELSE <<Head(replacement)>> \o GetSubstitution(matched, str, position, Tail(replacement))

\* str.replace(regexp, value) with the g flag, from index i on.  A string is
\* carried with the origin of each of its characters: its index in the
\* content given to replacePlaceholders, or 0 for an inserted character.
RECURSIVE ReplaceFrom(_, _, _, _)
ReplaceFrom(upd, atoms, value, i) ==
    IF i > Len(upd.s) THEN [s |-> <<>>, o |-> <<>>]
    ELSE IF MatchAt(atoms, upd.s, i)
         THEN LET n    == Len(atoms)
                  sub  == GetSubstitution(SubSeq(upd.s, i, i + n - 1), upd.s, i, value)
                  rest == ReplaceFrom(upd, atoms, value, i + n)
              IN  [s |-> sub \o rest.s, o |-> [k \in 1..Len(sub) |-> 0] \o rest.o]
    ELSE LET rest == ReplaceFrom(upd, atoms, value, i + 1)
         IN  [s |-> <<upd.s[i]>> \o rest.s, o |-> <<upd.o[i]>> \o rest.o]

\* `{{${key}}}`
Placeholder(key) == <<"{", "{">> \o key \o <<"}", "}">>

\* The forEach over Object.keys(envVars), from the k-th key on.
RECURSIVE ReplaceKeys(_, _, _)
ReplaceKeys(upd, env, k) ==
    IF k > Len(env) THEN upd
    ELSE ReplaceKeys(
             ReplaceFrom(upd, RegExp(EscapeRegExp(Placeholder(env[k].key))), env[k].value, 1),
             env, k + 1)

Tagged(str) == [s |-> str, o |-> [i \in 1..Len(str) |-> i]]

\* Whether the string p stands in s at index i.
OccursAt(p, s, i) == i + Len(p) - 1 <= Len(s) /\ SubSeq(s, i, i + Len(p) - 1) = p

\* The tokens {{NAME}} of a string, NAME a non-empty text without braces: the
\* pairs <<first index, last index>>.
TokenSpans(str) ==
    { sp \in (1..Len(str)) \X (1..Len(str)) :
        /\ sp[2] >= sp[1] + 4
        /\ OccursAt(<<"{", "{">>, str, sp[1])
        /\ OccursAt(<<"}", "}">>, str, sp[2] - 1)
        /\ \A i \in (sp[1] + 2)..(sp[2] - 2) : str[i] \notin {"{", "}"} }

TokenName(str, sp) == SubSeq(str, sp[1] + 2, sp[2] - 2)

KeysOf(env) == { env[k].key : k \in DOMAIN env }

\* A faulty variant of replacePlaceholders: a template engine that looks every token
\* up in the mapping and erases the tokens it does not find.
RECURSIVE LookupFrom(_, _, _)
LookupFrom(upd, env, i) ==
    IF i > Len(upd.s) THEN [s |-> <<>>, o |-> <<>>]
    ELSE LET here == { sp \in TokenSpans(upd.s) : sp[1] = i }
         IN  IF here = {}
             THEN LET rest == LookupFrom(upd, env, i + 1)
                  IN  [s |-> <<upd.s[i]>> \o rest.s, o |-> <<upd.o[i]>> \o rest.o]
             ELSE LET sp   == CHOOSE x \in here : TRUE
                      hit  == { k \in DOMAIN env : env[k].key = TokenName(upd.s, sp) }
                      sub  == IF hit = {} THEN <<>> ELSE env[Min(hit)].value
                      rest == LookupFrom(upd, env, sp[2] + 1)
                  IN  [s |-> sub \o rest.s, o |-> [k \in 1..Len(sub) |-> 0] \o rest.o]

replacePlaceholdersErasing(cont, env) == LookupFrom(Tagged(cont), env, 1)

replacePlaceholders(cont, env) == ReplaceKeys(Tagged(cont), env, 1)

(***************************************************************************)
(* loadEnvFile (scripts/inject-env.js): the parsing of the file's text.    *)
(***************************************************************************)
\* A faulty variant of Assign: a key that is already set keeps its first value.
AssignKeepFirst(env, key, value) ==
    IF \E i \in DOMAIN env : env[i].key = key THEN env
    ELSE Append(env, [key |-> key, value |-> value])

\* envVars[key] = value: a new key is added after the others, a key that is
\* already set keeps its place and takes the new value.
Assign(env, key, value) ==
    IF \E i \in DOMAIN env : env[i].key = key
    THEN [i \in DOMAIN env |-> IF env[i].key = key THEN [key |-> key, value |-> value] ELSE env[i]]
    ELSE Append(env, [key |-> key, value |-> value])

\* A faulty variant of ParseLine: const [key, value] = trimmed.split('='), which
\* drops what follows a second `=`.
ParseLineTwoParts(env, line) ==
    LET trimmed == trim(line)
        parts   == split(trimmed, "=")
    IN  IF trimmed # <<>> /\ ~startsWith(trimmed, <<"#">>) /\ parts[1] # <<>> /\ Len(parts) > 1
        THEN Assign(env, trim(parts[1]), trim(parts[2]))
        ELSE env

\* The body of the forEach over the lines.
ParseLine(env, line) ==
    LET trimmed    == trim(line)
        parts      == split(trimmed, "=")
        key        == parts[1]
        valueParts == Tail(parts)
    IN  IF trimmed # <<>> /\ ~startsWith(trimmed, <<"#">>)
        THEN IF key # <<>> /\ Len(valueParts) > 0
             THEN Assign(env, trim(key), trim(join(valueParts, "=")))
             ELSE env
        ELSE env

\* envFile.split('\n').forEach(...), from the n-th line on.
RECURSIVE ParseLines(_, _, _)
ParseLines(env, lines, n) ==
    IF n > Len(lines) THEN env
    ELSE ParseLines(ParseLine(env, lines[n]), lines, n + 1)

\* Lines 15 to 28 of loadEnvFile: the mapping read from the text of the file.
parseEnvFile(text) == ParseLines(<<>>, split(text, "\n"), 1)

(***************************************************************************)
(* The inputs of replacePlaceholders.                                      *)
(***************************************************************************)
ContentPieces ==
    { Placeholder(<<"A">>), Placeholder(<<"B">>), Placeholder(<<"A", ".", "B">>),
      Placeholder(<<"A", "x", "B">>), Placeholder(<<"U">>), <<"{", "{">>, <<"}", "}">> }

RECURSIVE Concat(_)
Concat(ps) == IF ps = <<>> THEN <<>> ELSE Head(ps) \o Concat(Tail(ps))

Contents == { Concat(ps) : ps \in UNION { [1..n -> ContentPieces] : n \in 0..MaxPieces } }

Keys == { <<"A">>, <<"B">>, <<"A", ".", "B">> }

Values == { <<"x">>, <<"$", "&">>, Placeholder(<<"B">>) }

Entries == [key : Keys, value : Values]

\* Mappings: the keys of an object are distinct.
Mappings ==
    { m \in UNION { [1..n -> Entries] : n \in 0..MaxKeys } :
        \A i, j \in DOMAIN m : i # j => m[i].key # m[j].key }

NoString == <<"-">>

\* The specifications of the build scripts open no page, and so construct
\* neither AuthModule nor App.
NoPage == <<>>
NoAuth == <<>>
NoApp == <<>>

\* The specifications of the pure functions use no file system.
NoFileSystem ==
    /\ fs = <<>>
    /\ before = <<>>
    /\ exit = 0
    /\ out = {}
    /\ firstOut = <<>>
    /\ runs = 0
    /\ streak = 0
    /\ ui = NoPage
    /\ auth = NoAuth
    /\ app = NoApp

InitReplace ==
    /\ pc = "replace"
    /\ content \in Contents
    /\ envVars \in Mappings
    /\ result = Tagged(<<>>)
    /\ envFile = NoString
    /\ loaded = <<>>
    /\ NoFileSystem

ReplacePlaceholders ==
    /\ pc = "replace"
    /\ result' = replacePlaceholders(content, envVars)
    /\ pc' = "replaced"
    /\ UNCHANGED <<content, envVars, envFile, loaded, fs, before, exit, out, firstOut, runs, streak, ui, auth, app>>

NextReplace == ReplacePlaceholders

SpecReplace == InitReplace /\ [][NextReplace]_vars

(***************************************************************************)
(* The inputs of loadEnvFile: files of at most MaxLines lines.             *)
(***************************************************************************)
EnvLines ==
    { <<"A", "=", "x">>,
      <<"A", "=", "y">>,
      <<" ", "A", " ", "=", " ", "x", "=", "y", " ">>,
      <<"#", "A", "=", "x">>,
      <<>>,
      <<"=", "x">>,
      <<"A">>,
      <<"B", "=">>,
      <<"B", "=", "x", "\r">> }

EnvFiles == { join(ls, "\n") : ls \in UNION { [1..n -> EnvLines] : n \in 1..MaxLines } }

InitEnv ==
    /\ pc = "load"
    /\ envFile \in EnvFiles
    /\ loaded = <<>>
    /\ content = NoString
    /\ envVars = <<>>
    /\ result = Tagged(<<>>)
    /\ NoFileSystem

LoadEnvFile ==
    /\ pc = "load"
    /\ loaded' = parseEnvFile(envFile)
    /\ pc' = "loaded"
    /\ UNCHANGED <<content, envVars, result, envFile, fs, before, exit, out, firstOut, runs, streak, ui, auth, app>>

NextEnv == LoadEnvFile

SpecEnv == InitEnv /\ [][NextEnv]_vars

(***************************************************************************)
(* The file system: a function from the existing paths to their nodes.     *)
(* The project root is the path <<>>.                                      *)
(***************************************************************************)
Dir == [kind |-> "dir", data |-> <<>>]
File(d) == [kind |-> "file", data |-> d]

Parent(p) == SubSeq(p, 1, Len(p) - 1)

\* Whether path p is root or lies below it.
IsWithin(p, root) == Len(p) >= Len(root) /\ SubSeq(p, 1, Len(root)) = root

\* The tree below root, by paths relative to root (empty when root is missing).
Subtree(f, root) ==
    [q \in { SubSeq(p, Len(root) + 1, Len(p)) : p \in { x \in DOMAIN f : IsWithin(x, root) } }
        |-> f[root \o q]]

\* A relative tree put at root.
Mount(t, root) ==
    [p \in { root \o q : q \in DOMAIN t } |-> t[SubSeq(p, Len(root) + 1, Len(p))]]

Ok(f) == [fs |-> f, threw |-> FALSE]
Throw(f) == [fs |-> f, threw |-> TRUE]

existsSync(f, p) == p \in DOMAIN f

\* fs.mkdirSync(p, { recursive: true }): creates p and its missing ancestors;
\* throws when p or an ancestor is a file.
mkdirSync(f, p) ==
    LET prefixes == { SubSeq(p, 1, k) : k \in 0..Len(p) }
    IN  IF \E q \in prefixes : q \in DOMAIN f /\ f[q].kind = "file"
        THEN Throw(f)
        ELSE Ok([q \in DOMAIN f \cup prefixes |-> IF q \in DOMAIN f THEN f[q] ELSE Dir])

\* Writing data to the file p (fs.writeFileSync, the target of
\* fs.copyFileSync): throws when p is a directory or its parent is no directory.
writeFileSync(f, p, data) ==
    IF \/ (p \in DOMAIN f /\ f[p].kind = "dir")
       \/ Parent(p) \notin DOMAIN f
       \/ f[Parent(p)].kind # "dir"
    THEN Throw(f)
    ELSE Ok([q \in DOMAIN f \cup {p} |-> IF q = p THEN File(data) ELSE f[q]])

\* A faulty variant of copyFileSync: the data is added to a file that exists.
copyFileSyncAppend(f, src, dest) ==
    IF existsSync(f, dest) /\ f[dest].kind = "file"
    THEN writeFileSync(f, dest, f[dest].data \o f[src].data)
    ELSE writeFileSync(f, dest, f[src].data)

copyFileSync(f, src, dest) == writeFileSync(f, dest, f[src].data)

\* A faulty variant of rmSync: the files right below p are removed, its
\* subdirectories are left.
rmSyncShallow(f, p) ==
    [q \in { x \in DOMAIN f : ~(Parent(x) = p /\ x # p /\ f[x].kind = "file") } |-> f[q]]

\* The file system without p and what lies below it.
Without(f, p) == [q \in { x \in DOMAIN f : ~IsWithin(x, p) } |-> f[q]]

\* fs.rmSync(p, { recursive: true, force: true })
rmSync(f, p) == Without(f, p)

\* fs.readdirSync(dir): the names of the entries of dir, in the order ord
\* (the order the file system lists them in is not specified).
readdirSync(f, dir, ord) == SelectSeq(ord, LAMBDA n : Append(dir, n) \in DOMAIN f)

\* The names of directory entries.
Names == {"README.md", "firebase.js", "modules"}

Orders == { o \in [1..Cardinality(Names) -> Names] : \A i, j \in DOMAIN o : i # j => o[i] # o[j] }

(***************************************************************************)
(* The Asset Copier (scripts/build-assets.js).                             *)
(***************************************************************************)
SrcAssets == <<"src", "assets">>
DestAssets == <<"public", "assets">>

RECURSIVE copyRecursive(_, _, _, _)

\* A faulty variant of CopyEntry: a file named README.md is copied as well.
CopyEntryAll(f, src, dest, name, ord) ==
    LET srcPath  == Append(src, name)
        destPath == Append(dest, name)
    IN  IF f[srcPath].kind = "dir"
        THEN IF name = "README.md" THEN Ok(f)
             ELSE LET made == IF ~existsSync(f, destPath) THEN mkdirSync(f, destPath) ELSE Ok(f)
                  IN  IF made.threw THEN made
                      ELSE copyRecursive(made.fs, srcPath, destPath, ord)
        ELSE copyFileSync(f, srcPath, destPath)

\* The body of the loop over the entries of src.
CopyEntry(f, src, dest, name, ord) ==
    LET srcPath  == Append(src, name)
        destPath == Append(dest, name)
    IN  IF f[srcPath].kind = "dir"
        THEN IF name = "README.md" THEN Ok(f)
             ELSE LET made == IF ~existsSync(f, destPath) THEN mkdirSync(f, destPath) ELSE Ok(f)
                  IN  IF made.threw THEN made
                      ELSE copyRecursive(made.fs, srcPath, destPath, ord)
        ELSE IF name = "README.md" THEN Ok(f)
             ELSE copyFileSync(f, srcPath, destPath)

\* for (const entry of entries), until an entry throws.
RECURSIVE CopyEntries(_, _, _, _, _)
CopyEntries(f, src, dest, entries, ord) ==
    IF entries = <<>> THEN Ok(f)
    ELSE LET r == CopyEntry(f, src, dest, Head(entries), ord)
         IN  IF r.threw THEN r ELSE CopyEntries(r.fs, src, dest, Tail(entries), ord)

\* copyRecursive(src, dest): a missing src is a warning and a return;
\* readdirSync throws when src is a file.
copyRecursive(f, src, dest, ord) ==
    IF ~existsSync(f, src) THEN Ok(f)
    ELSE IF f[src].kind # "dir" THEN Throw(f)
    ELSE CopyEntries(f, src, dest, readdirSync(f, src, ord), ord)

\* A faulty variant of copyAssets: the destination is emptied before the copy.
copyAssetsCleanFirst(f, ord) ==
    LET made == mkdirSync(Without(f, DestAssets), DestAssets)
    IN  IF made.threw THEN made ELSE copyRecursive(made.fs, SrcAssets, DestAssets, ord)

\* copyAssets(): the destination directory is created first, then the copy.
copyAssets(f, ord) ==
    LET made == IF ~existsSync(f, DestAssets) THEN mkdirSync(f, DestAssets) ELSE Ok(f)
    IN  IF made.threw THEN made ELSE copyRecursive(made.fs, SrcAssets, DestAssets, ord)

(***************************************************************************)
(* The Environment Injector (scripts/inject-env.js): the tree walk and     *)
(* main.                                                                   *)
(***************************************************************************)
EnvPath == <<".env">>
SrcJs == <<"src", "js">>
DestJs == <<"public", "js">>
FirebaseFile == DestJs \o <<"modules", "firebase.js">>

RECURSIVE processFiles(_, _, _, _, _)

\* A faulty variant of ProcessFile: a file is written as it was read.
ProcessFileRaw(f, sourceDir, targetDir, file, env, ord) ==
    LET sourcePath == Append(sourceDir, file)
        targetPath == Append(targetDir, file)
    IN  IF f[sourcePath].kind = "dir"
        THEN processFiles(f, sourcePath, targetPath, env, ord)
        ELSE writeFileSync(f, targetPath, f[sourcePath].data)

\* A faulty variant of ProcessFile: the substituted text is written over the
\* source file.
ProcessFileInPlace(f, sourceDir, targetDir, file, env, ord) ==
    LET sourcePath == Append(sourceDir, file)
        targetPath == Append(targetDir, file)
    IN  IF f[sourcePath].kind = "dir"
        THEN processFiles(f, sourcePath, targetPath, env, ord)
        ELSE writeFileSync(f, sourcePath, replacePlaceholders(f[sourcePath].data, env).s)

\* The body of files.forEach: a directory is walked, a file is read,
\* substituted and written.
ProcessFile(f, sourceDir, targetDir, file, env, ord) ==
    LET sourcePath == Append(sourceDir, file)
        targetPath == Append(targetDir, file)
    IN  IF f[sourcePath].kind = "dir"
        THEN processFiles(f, sourcePath, targetPath, env, ord)
        ELSE writeFileSync(f, targetPath, replacePlaceholders(f[sourcePath].data, env).s)

\* files.forEach(...), until a file throws.
RECURSIVE ProcessEach(_, _, _, _, _, _)
ProcessEach(f, sourceDir, targetDir, files, env, ord) ==
    IF files = <<>> THEN Ok(f)
    ELSE LET r == ProcessFile(f, sourceDir, targetDir, Head(files), env, ord)
         IN  IF r.threw THEN r
             ELSE ProcessEach(r.fs, sourceDir, targetDir, Tail(files), env, ord)

\* processFiles(sourceDir, targetDir, envVars): the target directory is made
\* first; readdirSync throws when sourceDir is missing or a file.
processFiles(f, sourceDir, targetDir, env, ord) ==
    LET made == IF ~existsSync(f, targetDir) THEN mkdirSync(f, targetDir) ELSE Ok(f)
    IN  IF made.threw THEN made
        ELSE IF ~existsSync(made.fs, sourceDir) \/ made.fs[sourceDir].kind # "dir"
             THEN Throw(made.fs)
        ELSE ProcessEach(made.fs, sourceDir, targetDir,
                         readdirSync(made.fs, sourceDir, ord), env, ord)

\* loadEnvFile(): exits when .env is missing; readFileSync throws when it is
\* a directory.
loadEnvFile(f) ==
    [exited  |-> ~existsSync(f, EnvPath),
     threw   |-> existsSync(f, EnvPath) /\ f[EnvPath].kind # "file",
     envVars |-> IF existsSync(f, EnvPath) /\ f[EnvPath].kind = "file"
                 THEN parseEnvFile(f[EnvPath].data) ELSE <<>>]

\* A faulty variant of cleanTarget: the directory above the target is removed.
cleanTargetParent(f) == IF existsSync(f, DestJs) THEN rmSync(f, Parent(DestJs)) ELSE f

\* A faulty variant of cleanTarget: the target directory is left as it is.
cleanTargetNever(f) == f

\* if (fs.existsSync(targetDir)) fs.rmSync(targetDir, ...)
cleanTarget(f) == IF existsSync(f, DestJs) THEN rmSync(f, DestJs) ELSE f

\* A faulty variant of ErrorExit: the error is logged and the exit status left at 0.
ErrorExitLogOnly(f) == [fs |-> f, exit |-> 0, out |-> {"error: injecting"}]

\* catch (error) { console.error(...); process.exit(1); }
ErrorExit(f) == [fs |-> f, exit |-> 1, out |-> {"error: injecting"}]

\* console.log once processFiles has returned.
Injected == {"log: injected"}

\* A faulty variant of InjectWith: a leftover `{{` is an error.
InjectWithStrict(f, env, ord) ==
    LET p == processFiles(cleanTarget(f), SrcJs, DestJs, env, ord)
    IN  IF p.threw THEN ErrorExit(p.fs)
        ELSE IF existsSync(p.fs, FirebaseFile)
             THEN IF p.fs[FirebaseFile].kind # "file"
                  THEN [ErrorExit(p.fs) EXCEPT !.out = Injected \cup @]
                  ELSE IF includes(p.fs[FirebaseFile].data, <<"{", "{">>)
                       THEN [ErrorExit(p.fs) EXCEPT !.out = Injected \cup @]
                       ELSE [fs |-> p.fs, exit |-> 0, out |-> Injected]
        ELSE [fs |-> p.fs, exit |-> 0, out |-> Injected]

\* A faulty variant of InjectWith: a target directory that exists is removed,
\* and the files are processed only when there was none.
InjectWithElse(f, env, ord) ==
    IF existsSync(f, DestJs) THEN [fs |-> rmSync(f, DestJs), exit |-> 0, out |-> Injected]
    ELSE LET p == processFiles(f, SrcJs, DestJs, env, ord)
         IN  IF p.threw THEN ErrorExit(p.fs)
             ELSE [fs |-> p.fs, exit |-> 0, out |-> Injected]

\* main() once the mapping is loaded: clean, process, then look into the one
\* output file for a leftover `{{` (reading it throws when it is a directory).
InjectWith(f, env, ord) ==
    LET p == processFiles(cleanTarget(f), SrcJs, DestJs, env, ord)
    IN  IF p.threw THEN ErrorExit(p.fs)
        ELSE IF existsSync(p.fs, FirebaseFile)
             THEN IF p.fs[FirebaseFile].kind # "file"
                  THEN [ErrorExit(p.fs) EXCEPT !.out = Injected \cup @]
                  ELSE [fs |-> p.fs, exit |-> 0,
                        out |-> Injected \cup
                                (IF includes(p.fs[FirebaseFile].data, <<"{", "{">>)
                                 THEN {"warn: placeholders not replaced"} ELSE {})]
        ELSE [fs |-> p.fs, exit |-> 0, out |-> Injected]

\* A faulty variant of main: the target directory is cleaned before .env is looked for.
mainCleanFirst(f, ord) ==
    LET l == loadEnvFile(cleanTarget(f))
    IN  IF l.exited THEN [fs |-> cleanTarget(f), exit |-> 1, out |-> {"error: .env not found"}]
        ELSE IF l.threw THEN ErrorExit(cleanTarget(f))
        ELSE InjectWith(f, l.envVars, ord)

\* main(): process.exit(1) in loadEnvFile ends the process at once; an
\* exception is caught, logged, and ends it with status 1.
main(f, ord) ==
    LET l == loadEnvFile(f)
    IN  IF l.exited THEN [fs |-> f, exit |-> 1, out |-> {"error: .env not found"}]
        ELSE IF l.threw THEN ErrorExit(f)
        ELSE InjectWith(f, l.envVars, ord)

(***************************************************************************)
(* The inputs of the scripts: trees of at most n entries.                  *)
(***************************************************************************)
RelPaths == { <<a>> : a \in Names } \cup { <<a, b>> : a, b \in Names }

PathSets(n) ==
    { S \in SUBSET RelPaths :
        /\ Cardinality(S) <= n
        /\ \A p \in S : Len(p) = 1 \/ Parent(p) \in S }

\* The directory trees of at most n entries whose files hold data of D.
Trees(n, D) ==
    UNION { { t \in [S \cup {<<>>} -> {Dir} \cup { File(d) : d \in D }] :
                \A p \in DOMAIN t : p = <<>> \/ t[Parent(p)] = Dir } :
            S \in PathSets(n) }
    \ { t \in [{<<>>} -> { File(d) : d \in D }] : TRUE }

Absent == <<>>

NewData == <<"n", "e", "w">>
OldData == <<"o", "l", "d">>

\* The project root with its src directory, and a public directory when the
\* destination exists or wanted is true.
Project(trees, wanted) ==
    trees @@ (IF wanted \/ \E p \in DOMAIN trees : IsWithin(p, <<"public">>)
              THEN (<<"public">> :> Dir) ELSE <<>>)
          @@ (<<"src">> :> Dir) @@ (<<>> :> Dir)

\* The source of the assets: missing, a file, or a directory tree.
AssetSources == {Absent, (<<>> :> File(NewData))} \cup Trees(MaxSrcNodes, {NewData})

\* The destination before a run: missing, or a directory tree.
PriorDests == {Absent} \cup Trees(MaxDestNodes, {OldData})

InitCopy ==
    /\ pc = "idle"
    /\ fs \in { Project(Mount(s, SrcAssets) @@ Mount(d, DestAssets), w) :
                  s \in AssetSources, d \in PriorDests, w \in BOOLEAN }
    /\ before = <<>>
    /\ exit = 0
    /\ out = {}
    /\ firstOut = <<>>
    /\ runs = 0
    /\ streak = 0
    /\ ui = NoPage
    /\ auth = NoAuth
    /\ app = NoApp
    /\ content = NoString
    /\ envVars = <<>>
    /\ result = Tagged(<<>>)
    /\ envFile = NoString
    /\ loaded = <<>>

\* node scripts/build-assets.js, at any time: an exception that nothing
\* catches ends the process with status 1.
CopyAssets ==
    /\ pc \in {"idle", "copied", "injected"}
    /\ runs < MaxRuns
    /\ \E ord \in Orders :
         LET r == copyAssets(fs, ord)
         IN  /\ fs' = r.fs
             /\ exit' = IF r.threw THEN 1 ELSE 0
             /\ out' = (IF ~existsSync(fs, SrcAssets) /\ ~r.threw THEN {"warn: source not found"} ELSE {})
                       \cup (IF r.threw THEN {"uncaught exception"} ELSE {})
    /\ before' = fs
    /\ runs' = runs + 1
    /\ streak' = IF pc = "copied" THEN streak + 1 ELSE 1
    /\ pc' = "copied"
    /\ UNCHANGED <<content, envVars, result, envFile, loaded, firstOut, ui, auth, app>>

NextCopy == CopyAssets

SpecCopy == InitCopy /\ [][NextCopy]_vars

(***************************************************************************)
(* Runs of the Environment Injector.  Between two runs the destination may *)
(* become any prior destination.                                           *)
(***************************************************************************)
\* The text of src/js files, and of .env.
JsData == Placeholder(<<"A">>)
EnvTexts == { <<"A", "=", "x">>, <<"B", "=", "y">> }

JsSources == {Absent, (<<>> :> File(JsData))} \cup Trees(MaxSrcNodes, {JsData})

\* The destinations a run may find: none, an empty one, one with a file or a
\* directory the source may not have, one with a file where the source may
\* have a directory.
StaleDests ==
    { Absent,
      (<<>> :> Dir),
      (<<>> :> Dir) @@ (<<"firebase.js">> :> File(OldData)),
      (<<>> :> Dir) @@ (<<"modules">> :> Dir) @@ (<<"modules", "firebase.js">> :> File(OldData)),
      (<<>> :> Dir) @@ (<<"modules">> :> File(OldData)),
      (<<>> :> Dir) @@ (<<"README.md">> :> Dir) }
EnvOptions == {Absent, (<<>> :> Dir)} \cup { (<<>> :> File(e)) : e \in EnvTexts }

InitInject ==
    /\ pc = "idle"
    /\ fs \in { Project(Mount(s, SrcJs) @@ Mount(d, DestJs) @@ Mount(e, EnvPath), w) :
                  s \in JsSources, d \in StaleDests, e \in EnvOptions, w \in BOOLEAN }
    /\ before = <<>>
    /\ exit = 0
    /\ out = {}
    /\ firstOut = <<>>
    /\ runs = 0
    /\ streak = 0
    /\ ui = NoPage
    /\ auth = NoAuth
    /\ app = NoApp
    /\ content = NoString
    /\ envVars = <<>>
    /\ result = Tagged(<<>>)
    /\ envFile = NoString
    /\ loaded = <<>>

\* node scripts/inject-env.js, at any time.
InjectEnv ==
    /\ pc \in {"idle", "copied", "injected"}
    /\ runs < MaxRuns
    /\ \E ord \in Orders :
         LET r == main(fs, ord)
         IN  /\ fs' = r.fs
             /\ exit' = r.exit
             /\ out' = r.out
             /\ firstOut' = IF r.exit = 0 /\ firstOut = <<>>
                            THEN Subtree(r.fs, DestJs) ELSE firstOut
    /\ before' = fs
    /\ runs' = runs + 1
    /\ streak' = IF pc = "injected" THEN streak + 1 ELSE 1
    /\ pc' = "injected"
    /\ UNCHANGED <<content, envVars, result, envFile, loaded, ui, auth, app>>

\* Between two runs: the destination is replaced by any prior destination.
ReplaceDest ==
    /\ pc = "injected"
    /\ runs < MaxRuns
    /\ \E d \in StaleDests :
         fs' = Project(Mount(d, DestJs) @@ Without(fs, DestJs), TRUE)
    /\ pc' = "idle"
    /\ streak' = 0
    /\ UNCHANGED <<content, envVars, result, envFile, loaded, before, exit, out, firstOut, runs, ui, auth, app>>

NextInject == InjectEnv \/ ReplaceDest

SpecInject == InitInject /\ [][NextInject]_vars

(***************************************************************************)
(* The build: both scripts run from the project root, on one file system,  *)
(* any number of times in any order (npm run build runs the Asset Copier   *)
(* and then the Environment Injector).                                     *)
(***************************************************************************)
\* The sources of a project: missing, a file, files and a README.md, a
\* directory with a file.
BuildSources(data) ==
    { Absent,
      (<<>> :> File(data)),
      (<<>> :> Dir) @@ (<<"firebase.js">> :> File(data)) @@ (<<"README.md">> :> File(data)),
      (<<>> :> Dir) @@ (<<"modules">> :> Dir) @@ (<<"modules", "firebase.js">> :> File(data)) }

\* The destinations of an earlier build: none, or one with a file and a
\* directory.
BuiltDests ==
    { Absent,
      (<<>> :> Dir) @@ (<<"firebase.js">> :> File(OldData)) @@ (<<"modules">> :> Dir) }

InitBuild ==
    /\ pc = "idle"
    /\ fs \in { Project(Mount(a, SrcAssets) @@ Mount(j, SrcJs) @@ Mount(da, DestAssets)
                          @@ Mount(dj, DestJs) @@ Mount(e, EnvPath), FALSE) :
                  a \in BuildSources(NewData), j \in BuildSources(JsData),
                  da \in BuiltDests, dj \in BuiltDests, e \in EnvOptions }
    /\ before = <<>>
    /\ exit = 0
    /\ out = {}
    /\ firstOut = <<>>
    /\ runs = 0
    /\ streak = 0
    /\ ui = NoPage
    /\ auth = NoAuth
    /\ app = NoApp
    /\ content = NoString
    /\ envVars = <<>>
    /\ result = Tagged(<<>>)
    /\ envFile = NoString
    /\ loaded = <<>>

NextBuild == CopyAssets \/ InjectEnv

SpecBuild == InitBuild /\ [][NextBuild]_vars

(***************************************************************************)
(* The page (src/js/modules/ui.js): the elements UIModule holds and the    *)
(* loading of the avatar image.  A URL is a sequence of its parts.         *)
(***************************************************************************)
MaxUpdates == 2
MaxReloads == 2

ElementIds == {"status", "loginButton", "logoutButton", "userInfo", "userAvatar"}

defaultAvatarURL == <<"/", "assets/images/placeholders/default-avatar.svg">>

\* A photo of the identity provider, and the origin the page is served from.
PhotoURL == <<"https://", "lh3.googleusercontent.com", "/", "a/photo">>
Origin == <<"https://", "localhost:3000">>

\* What the src property of an image returns: the URL of the src attribute
\* resolved against the document, so a path gets the origin before it.
Resolve(url) == IF url # <<>> /\ url[1] = "/" THEN Origin \o url ELSE url

\* signed out, and the users that sign in: photoURL is null, empty or a URL.
NoUser == [displayName |-> "", email |-> "", photoURL |-> NoString]
Users ==
    [displayName : {"Ada"}, email : {"ada@example.com"}, photoURL : {NoString, <<>>, PhotoURL}]

\* user.photoURL || ...: null and the empty string are falsy.
Falsy(str) == str = NoString \/ str = <<>>

\* A faulty variant of AvatarSource: no photo gives the empty string.
AvatarSourceOrEmpty(user) == IF Falsy(user.photoURL) THEN <<>> ELSE user.photoURL

\* user.photoURL || this.defaultAvatarURL
AvatarSource(user) == IF Falsy(user.photoURL) THEN defaultAvatarURL ELSE user.photoURL

\* The page once init() has looked its elements up: els are the elements
\* found, broken the URLs whose image does not load.
Pages ==
    [els : SUBSET ElementIds,
     broken : SUBSET {Resolve(PhotoURL), Resolve(defaultAvatarURL)},
     user : {NoUser},
     login : {""}, info : {""}, logout : {""},
     statusText : {""}, statusClass : {<<>>}, statusDisplay : {""},
     name : {""}, email : {""},
     src : {NoString}, alt : {<<>>},
     onerror : {FALSE},
     loading : {FALSE},
     event : {"init"},
     updates : {0},
     reloads : {0},
     again : {FALSE}]

InitUI ==
    /\ pc = "page"
    /\ ui \in Pages
    /\ content = NoString
    /\ envVars = <<>>
    /\ result = Tagged(<<>>)
    /\ envFile = NoString
    /\ loaded = <<>>
    /\ fs = <<>>
    /\ before = <<>>
    /\ exit = 0
    /\ out = {}
    /\ firstOut = <<>>
    /\ runs = 0
    /\ streak = 0
    /\ auth = NoAuth
    /\ app = NoApp

\* The value v for an element of the page u that was found, the old value
\* otherwise.
Found(u, id, v, old) == IF id \in u.els THEN v ELSE old

\* showStatus(message, type)
showStatus(u, message, type) ==
    [u EXCEPT !.statusText = Found(u, "status", message, @),
              !.statusClass = Found(u, "status", <<"status", type>>, @),
              !.statusDisplay = Found(u, "status", "block", @)]

\* hideStatus()
hideStatus(u) == [u EXCEPT !.statusDisplay = Found(u, "status", "none", @)]

\* A faulty variant of updateAuthUI: signing out leaves the logout button.
updateAuthUIKeepsLogout(u, user) ==
    IF user # NoUser
    THEN [u EXCEPT
            !.user = user,
            !.login = Found(u, "loginButton", "none", @),
            !.info = Found(u, "userInfo", "block", @),
            !.name = Found(u, "userInfo", user.displayName, @),
            !.email = Found(u, "userInfo", user.email, @),
            !.src = Found(u, "userAvatar", AvatarSource(user), @),
            !.alt = Found(u, "userAvatar", <<user.displayName, "'s Avatar">>, @),
            !.onerror = Found(u, "userAvatar", TRUE, @),
            !.loading = Found(u, "userAvatar", TRUE, @),
            !.reloads = Found(u, "userAvatar", 0, @),
            !.logout = Found(u, "logoutButton", "block", @)]
    ELSE [u EXCEPT
            !.user = user,
            !.login = Found(u, "loginButton", "block", @),
            !.info = Found(u, "userInfo", "none", @)]

\* updateAuthUI(user); an assignment to src starts a load.
updateAuthUI(u, user) ==
    IF user # NoUser
    THEN [u EXCEPT
            !.user = user,
            !.login = Found(u, "loginButton", "none", @),
            !.info = Found(u, "userInfo", "block", @),
            !.name = Found(u, "userInfo", user.displayName, @),
            !.email = Found(u, "userInfo", user.email, @),
            !.src = Found(u, "userAvatar", AvatarSource(user), @),
            !.alt = Found(u, "userAvatar", <<user.displayName, "'s Avatar">>, @),
            !.onerror = Found(u, "userAvatar", TRUE, @),
            !.loading = Found(u, "userAvatar", TRUE, @),
            !.reloads = Found(u, "userAvatar", 0, @),
            !.logout = Found(u, "logoutButton", "block", @)]
    ELSE [u EXCEPT
            !.user = user,
            !.login = Found(u, "loginButton", "block", @),
            !.info = Found(u, "userInfo", "none", @),
            !.logout = Found(u, "logoutButton", "none", @)]

\* updateLoginButton(user)
updateLoginButton(u, user) == updateAuthUI(u, user)

\* A call of updateAuthUI(user).
UpdateAuthUI(user) ==
    /\ pc = "page"
    /\ ui.updates < MaxUpdates
    /\ ui' = [updateAuthUI(ui, user) EXCEPT !.event = "update", !.updates = @ + 1]
    /\ UNCHANGED <<pc, content, envVars, result, envFile, loaded, fs, before, exit, out,
                   firstOut, runs, streak, auth, app>>

\* The image of the avatar does not load: the error event runs onerror.
AvatarError ==
    /\ pc = "page"
    /\ ui.loading
    /\ Resolve(ui.src) \in ui.broken
    /\ ui.reloads < MaxReloads
    /\ ui' = IF ui.onerror /\ Resolve(ui.src) # defaultAvatarURL
             THEN [ui EXCEPT !.src = defaultAvatarURL,
                             !.loading = TRUE,
                             !.reloads = @ + 1,
                             !.again = @ \/ ui.src = defaultAvatarURL,
                             !.event = "error"]
             ELSE [ui EXCEPT !.loading = FALSE, !.event = "error"]
    /\ UNCHANGED <<pc, content, envVars, result, envFile, loaded, fs, before, exit, out,
                   firstOut, runs, streak, auth, app>>

\* The image of the avatar loads.
AvatarLoad ==
    /\ pc = "page"
    /\ ui.loading
    /\ Resolve(ui.src) \notin ui.broken
    /\ ui' = [ui EXCEPT !.loading = FALSE, !.event = "load"]
    /\ UNCHANGED <<pc, content, envVars, result, envFile, loaded, fs, before, exit, out,
                   firstOut, runs, streak, auth, app>>

NextUI ==
    \/ \E user \in Users \cup {NoUser} : UpdateAuthUI(user)
    \/ AvatarError
    \/ AvatarLoad

SpecUI == InitUI /\ [][NextUI]_vars

(***************************************************************************)
(* AuthModule (src/js/modules/auth.js).  A registration is a callback      *)
(* function fn with the number id of the onAuthStateChanged call that      *)
(* pushed it; the code compares functions only.  regs are the functions of *)
(* the calls so far, event, arg, prev and log tell the last operation, the *)
(* callbacks before it and the callbacks it invoked.                       *)
(***************************************************************************)
MaxRegs == 3
MaxDeliveries == 2

scriptVars ==
    <<content, envVars, result, envFile, loaded, fs, before, exit, out, firstOut, runs, streak>>

\* The callback functions of the clients of AuthModule.
Fns == {"f", "g"}

\* What the SDK delivers: a user, or null.
SdkUsers == Users \cup {NoUser}

\* this.authStateCallbacks.indexOf(callback), counted from 1; 0 for -1.
indexOf(cbs, fn) ==
    IF \E i \in DOMAIN cbs : cbs[i].fn = fn
    THEN Min({ i \in DOMAIN cbs : cbs[i].fn = fn })
    ELSE 0

\* this.authStateCallbacks.splice(index, 1)
splice(cbs, index) == SubSeq(cbs, 1, index - 1) \o SubSeq(cbs, index + 1, Len(cbs))

\* The function onAuthStateChanged(callback) returns.
unsubscribe(cbs, fn) ==
    IF indexOf(cbs, fn) > 0 THEN splice(cbs, indexOf(cbs, fn)) ELSE cbs

\* A callback that calls the functions returned for the callbacks of S.
RECURSIVE UnsubscribeAll(_, _)
UnsubscribeAll(cbs, S) ==
    IF S = {} THEN cbs
    ELSE LET fn == CHOOSE x \in S : TRUE
         IN  UnsubscribeAll(unsubscribe(cbs, fn), S \ {fn})

\* this.authStateCallbacks.forEach(callback => callback(user)): the indexes
\* 1..len of the array as it is when each is reached; the callback fn calls
\* the functions returned for does[fn].
RECURSIVE ForEach(_, _, _, _, _, _)
ForEach(cbs, k, len, user, does, log) ==
    IF k > len THEN [cbs |-> cbs, log |-> log]
    ELSE IF k > Len(cbs) THEN ForEach(cbs, k + 1, len, user, does, log)
    ELSE ForEach(UnsubscribeAll(cbs, does[cbs[k].fn]), k + 1, len, user, does,
                 Append(log, [id |-> cbs[k].id, fn |-> cbs[k].fn, user |-> user]))

\* new AuthModule(firebaseApp)
NewAuthModule ==
    [currentUser |-> NoUser,
     authStateCallbacks |-> <<>>,
     delivered |-> FALSE,
     regs |-> <<>>,
     deliveries |-> 0,
     event |-> "new",
     arg |-> 0,
     prev |-> <<>>,
     log |-> <<>>]

\* The listener the constructor gives the SDK.
authStateChanged(a, user, does) ==
    LET d == ForEach(a.authStateCallbacks, 1, Len(a.authStateCallbacks), user, does, <<>>)
    IN  [a EXCEPT !.currentUser = user,
                  !.authStateCallbacks = d.cbs,
                  !.delivered = TRUE,
                  !.deliveries = @ + 1,
                  !.event = "deliver",
                  !.arg = user,
                  !.prev = a.authStateCallbacks,
                  !.log = d.log]

\* onAuthStateChanged(callback)
onAuthStateChanged(a, fn) ==
    [a EXCEPT !.authStateCallbacks = Append(@, [fn |-> fn, id |-> Len(a.regs) + 1]),
              !.regs = Append(@, fn),
              !.event = "register",
              !.arg = Len(a.regs) + 1,
              !.prev = a.authStateCallbacks,
              !.log = IF a.currentUser # NoUser
                      THEN <<[id |-> Len(a.regs) + 1, fn |-> fn, user |-> a.currentUser]>>
                      ELSE <<>>]

InitAuth ==
    /\ pc = "auth"
    /\ auth = NewAuthModule
    /\ app = NoApp
    /\ ui = NoPage
    /\ content = NoString
    /\ envVars = <<>>
    /\ result = Tagged(<<>>)
    /\ envFile = NoString
    /\ loaded = <<>>
    /\ fs = <<>>
    /\ before = <<>>
    /\ exit = 0
    /\ out = {}
    /\ firstOut = <<>>
    /\ runs = 0
    /\ streak = 0

\* A client registers a callback.
OnAuthStateChanged(fn) ==
    /\ pc = "auth"
    /\ Len(auth.regs) < MaxRegs
    /\ auth' = onAuthStateChanged(auth, fn)
    /\ UNCHANGED <<pc, scriptVars, ui, app>>

\* A client calls the function the onAuthStateChanged call number id returned.
CallUnsubscribe(id) ==
    /\ pc = "auth"
    /\ id \in DOMAIN auth.regs
    /\ auth' = [auth EXCEPT !.authStateCallbacks = unsubscribe(@, auth.regs[id]),
                            !.event = "unsubscribe",
                            !.arg = id,
                            !.prev = auth.authStateCallbacks,
                            !.log = <<>>]
    /\ UNCHANGED <<pc, scriptVars, ui, app>>

\* The SDK delivers the auth state; the callbacks may unsubscribe callbacks.
SdkAuthState(user, does) ==
    /\ pc = "auth"
    /\ auth.deliveries < MaxDeliveries
    /\ auth' = authStateChanged(auth, user, does)
    /\ UNCHANGED <<pc, scriptVars, ui, app>>

NextAuth ==
    \/ \E fn \in Fns : OnAuthStateChanged(fn)
    \/ \E id \in 1..MaxRegs : CallUnsubscribe(id)
    \/ \E user \in SdkUsers, does \in [Fns -> SUBSET Fns] : SdkAuthState(user, does)

SpecAuth == InitAuth /\ [][NextAuth]_vars

(***************************************************************************)
(* The configuration (src/js/firebase-config.js) and the login handler of  *)
(* App (src/js/main.js).  A text is a sequence of symbols; the name of a   *)
(* key and a fixed message are one symbol each.                            *)
(***************************************************************************)
requiredFields ==
    <<"apiKey", "authDomain", "projectId", "storageBucket", "messagingSenderId", "appId">>

ConfigFields == { requiredFields[i] : i \in DOMAIN requiredFields } \cup {"measurementId"}

\* The key of .env whose placeholder the source holds for a field.
KeyOf(field) ==
    CASE field = "apiKey" -> <<"VITE_FIREBASE_API_KEY">>
      [] field = "authDomain" -> <<"VITE_FIREBASE_AUTH_DOMAIN">>
      [] field = "projectId" -> <<"VITE_FIREBASE_PROJECT_ID">>
      [] field = "storageBucket" -> <<"VITE_FIREBASE_STORAGE_BUCKET">>
      [] field = "messagingSenderId" -> <<"VITE_FIREBASE_MESSAGING_SENDER_ID">>
      [] field = "appId" -> <<"VITE_FIREBASE_APP_ID">>
      [] field = "measurementId" -> <<"VITE_FIREBASE_MEASUREMENT_ID">>

\* export const firebaseConfig = { ... }, as the source has it.
firebaseConfigSource == [field \in ConfigFields |-> Placeholder(KeyOf(field))]

\* The configuration the page gets: every value of the source through
\* replacePlaceholders with the mapping of .env.
InjectedConfig(env) ==
    [field \in ConfigFields |-> replacePlaceholders(firebaseConfigSource[field], env).s]

\* JavaScript values that are thrown or that settle a promise: message is the
\* message property, which null and undefined do not have.
NoMessage == [type |-> "undefined", text |-> <<>>]
Message(text) == [type |-> "string", text |-> text]
Null == [kind |-> "null", message |-> NoMessage, user |-> NoUser]
Undefined == [kind |-> "undefined", message |-> NoMessage, user |-> NoUser]
Error(text) == [kind |-> "Error", message |-> Message(text), user |-> NoUser]
Object(message) == [kind |-> "object", message |-> message, user |-> NoUser]
UserCredential(user) == [kind |-> "object", message |-> NoMessage, user |-> user]

\* Reading a property of null or undefined throws a TypeError.
HasProperties(v) == v.kind \notin {"null", "undefined"}
TypeError == Error(<<"Cannot read properties">>)

\* if (m): undefined and the empty string are falsy.
Truthy(m) == m.type # "undefined" /\ m.text # <<>>

ConfigIncomplete == "Firebase configuration incomplete"

\* A faulty variant of validateFirebaseConfig: a value that still holds `{{`
\* counts as missing.
validateFirebaseConfigStrict(config) ==
    LET missingFields ==
            SelectSeq(requiredFields,
                      LAMBDA field : Falsy(config[field]) \/ includes(config[field], <<"{", "{">>))
    IN  IF Len(missingFields) > 0
        THEN [threw |-> TRUE,
              error |-> Error(<<ConfigIncomplete, ". Missing values for: ">>
                              \o join([i \in DOMAIN missingFields |-> <<missingFields[i]>>], ", "))]
        ELSE [threw |-> FALSE, error |-> Undefined]

\* validateFirebaseConfig(): throws, or returns true.
validateFirebaseConfig(config) ==
    LET missingFields == SelectSeq(requiredFields, LAMBDA field : Falsy(config[field]))
    IN  IF Len(missingFields) > 0
        THEN [threw |-> TRUE,
              error |-> Error(<<ConfigIncomplete, ". Missing values for: ">>
                              \o join([i \in DOMAIN missingFields |-> <<missingFields[i]>>], ", "))]
        ELSE [threw |-> FALSE, error |-> Undefined]

\* How the promise of signInWithPopup settles.
Resolved(v) == [how |-> "resolved", value |-> v]
Rejected(v) == [how |-> "rejected", value |-> v]

\* signInWithGoogle(): the returned promise resolves with a result, or
\* rejects when the catch block itself throws.
signInWithGoogle(settled) ==
    IF settled.how = "resolved"
    THEN IF HasProperties(settled.value) /\ settled.value.user # NoUser
         THEN Resolved([success |-> TRUE, error |-> Undefined,
                        message |-> Message(<<"Welcome, ", settled.value.user.displayName, "!">>)])
         ELSE Resolved([success |-> FALSE, error |-> TypeError, message |-> TypeError.message])
    ELSE IF HasProperties(settled.value)
         THEN Resolved([success |-> FALSE, error |-> settled.value,
                        message |-> settled.value.message])
         ELSE Rejected(TypeError)

\* The catch block of the login handler: the page it leaves, and whether the
\* block itself throws, which rejects the handler.
HandlerCatch(u, error) ==
    IF ~HasProperties(error) THEN [ui |-> u, rejected |-> TRUE]
    ELSE IF Truthy(error.message)
         THEN IF error.message.type # "string" THEN [ui |-> u, rejected |-> TRUE]
              ELSE IF includes(error.message.text, <<ConfigIncomplete>>)
                   THEN [ui |-> showStatus(u, <<"Please update firebase-config.js with your Firebase project details.">>, "error"),
                         rejected |-> FALSE]
                   ELSE [ui |-> showStatus(u, <<"Error: ">> \o error.message.text, "error"),
                         rejected |-> FALSE]
         ELSE [ui |-> showStatus(u, IF error.message.type = "undefined"
                                    THEN <<"Error: ", "undefined">> ELSE <<"Error: ">>, "error"),
               rejected |-> FALSE]

\* The login handler from the await on.
HandlerAfter(u, settled) ==
    LET res == signInWithGoogle(settled)
    IN  IF res.how = "rejected" THEN HandlerCatch(u, res.value)
        ELSE IF res.value.success
             THEN [ui |-> showStatus(u, res.value.message.text, "success"), rejected |-> FALSE]
             ELSE HandlerCatch(u, res.value.error)

(***************************************************************************)
(* App (src/js/main.js) once init() has run: the listener is registered,   *)
(* the SDK has its first auth state to deliver.  popups are the sign-ins   *)
(* under way, events the auth states the SDK has yet to deliver.           *)
(***************************************************************************)
MaxClicks == 2
MaxSignOuts == 1

\* The configurations of a page: complete, one with a required value empty,
\* one with a placeholder left.
AppConfigs ==
    LET Complete == [field \in ConfigFields |-> <<"v">>]
    IN  { Complete,
          [Complete EXCEPT !["appId"] = <<>>],
          [Complete EXCEPT !["apiKey"] = Placeholder(KeyOf("apiKey"))] }

\* The users of the application: one with a photo, and null.
Ada == [displayName |-> "Ada", email |-> "ada@example.com", photoURL |-> PhotoURL]

\* What signInWithPopup may settle with beside a credential: results with
\* no user, and rejections with any value.
OddSettlements ==
    { Resolved(Null), Resolved(UserCredential(NoUser)),
      Rejected(Null), Rejected(Undefined),
      Rejected(Error(<<"Firebase: Error (auth/popup-closed-by-user).">>)),
      Rejected(Error(<<ConfigIncomplete>>)),
      Rejected(Object(NoMessage)), Rejected(Object(Message(<<>>))),
      Rejected(Object([type |-> "number", text |-> <<"42">>])) }

\* new App() and init().
NewApp(config, first) ==
    [config |-> config,
     popups |-> <<>>,
     events |-> <<first>>,
     sdkUser |-> first,
     clicks |-> 0,
     logoutClicks |-> 0,
     rejected |-> 0,
     signOuts |-> 0,
     sdkSignOuts |-> 0,
     last |-> "init"]

\* The pages App is started on: the login button and the user info are in the
\* markup, every image loads.
AppPages == { p \in Pages : p.broken = {} /\ {"loginButton", "userInfo"} \subseteq p.els }

InitApp ==
    /\ pc = "app"
    /\ ui \in AppPages
    /\ auth = onAuthStateChanged(NewAuthModule, "listener")
    /\ app \in { NewApp(config, first) : config \in AppConfigs, first \in {NoUser, Ada} }
    /\ content = NoString
    /\ envVars = <<>>
    /\ result = Tagged(<<>>)
    /\ envFile = NoString
    /\ loaded = <<>>
    /\ fs = <<>>
    /\ before = <<>>
    /\ exit = 0
    /\ out = {}
    /\ firstOut = <<>>
    /\ runs = 0
    /\ streak = 0

\* The listener of setupAuthStateListener.
Listener(u, user) ==
    IF user # NoUser THEN hideStatus(updateLoginButton(u, user)) ELSE updateLoginButton(u, user)

\* The sequence s without its element i.
Remove(s, i) == SubSeq(s, 1, i - 1) \o SubSeq(s, i + 1, Len(s))

\* What a run of the login handler leaves in app: a run that ends in an
\* exception nobody catches is counted.
Handled(ap, h, name) ==
    [ap EXCEPT !.rejected = IF h.rejected THEN @ + 1 ELSE @,
               !.last = name]

\* A click on the login button: the handler up to its await, or to its end
\* when validateFirebaseConfig throws.
ClickLogin ==
    /\ pc = "app"
    /\ "loginButton" \in ui.els
    /\ app.clicks < MaxClicks
    /\ LET shown == showStatus(ui, <<"Initializing sign-in...">>, "loading")
           started == [app EXCEPT !.clicks = @ + 1]
           valid == validateFirebaseConfig(app.config)
       IN  IF valid.threw
           THEN LET h == HandlerCatch(shown, valid.error)
                IN  /\ ui' = h.ui
                    /\ app' = Handled(started, h, "ClickLogin")
           ELSE /\ ui' = shown
                /\ app' = [started EXCEPT !.popups = Append(@, [state |-> "open", user |-> NoUser]),
                                          !.last = "ClickLogin"]
    /\ UNCHANGED <<pc, scriptVars, auth>>

\* The user signs in in the popup i: the SDK has a user, and an auth state
\* to deliver when the user has changed.
PopupSignedIn(i, user) ==
    /\ pc = "app"
    /\ i \in DOMAIN app.popups
    /\ app.popups[i].state = "open"
    /\ app' = [app EXCEPT !.popups[i] = [state |-> "signed", user |-> user],
                          !.sdkUser = user,
                          !.events = IF app.sdkUser # user THEN Append(@, user) ELSE @,
                          !.last = "PopupSignedIn"]
    /\ UNCHANGED <<pc, scriptVars, ui, auth>>

\* The promise of the popup i resolves with the credential of the user.
PopupResolve(i) ==
    /\ pc = "app"
    /\ i \in DOMAIN app.popups
    /\ app.popups[i].state = "signed"
    /\ LET h == HandlerAfter(ui, Resolved(UserCredential(app.popups[i].user)))
       IN  /\ ui' = h.ui
           /\ app' = Handled([app EXCEPT !.popups = Remove(@, i)], h, "PopupResolve")
    /\ UNCHANGED <<pc, scriptVars, auth>>

\* The promise of the popup i settles without a sign-in.
PopupSettle(i, settled) ==
    /\ pc = "app"
    /\ i \in DOMAIN app.popups
    /\ app.popups[i].state = "open"
    /\ LET h == HandlerAfter(ui, settled)
       IN  /\ ui' = h.ui
           /\ app' = Handled([app EXCEPT !.popups = Remove(@, i)], h, "PopupSettle")
    /\ UNCHANGED <<pc, scriptVars, auth>>

\* The callbacks of a dispatch, one after the other: App has the one listener.
RECURSIVE Notify(_, _)
Notify(u, log) ==
    IF log = <<>> THEN u ELSE Notify(Listener(u, Head(log).user), Tail(log))

\* The SDK delivers its next auth state.
AuthEvent ==
    /\ pc = "app"
    /\ app.events # <<>>
    /\ LET a == authStateChanged(auth, Head(app.events), [fn \in {"listener"} |-> {}])
       IN  /\ auth' = a
           /\ ui' = Notify(ui, a.log)
    /\ app' = [app EXCEPT !.events = Tail(@), !.last = "AuthEvent"]
    /\ UNCHANGED <<pc, scriptVars>>

\* The SDK loses its user with no call of the page: another tab signs out,
\* the account is disabled.
SdkSignedOut ==
    /\ pc = "app"
    /\ app.sdkUser # NoUser
    /\ app.sdkSignOuts < MaxSignOuts
    /\ app' = [app EXCEPT !.sdkUser = NoUser,
                          !.events = Append(@, NoUser),
                          !.sdkSignOuts = @ + 1,
                          !.last = "SdkSignedOut"]
    /\ UNCHANGED <<pc, scriptVars, ui, auth>>

\* signOut(): the SDK signs the user out and has an auth state to deliver.
signOut(ap) ==
    [ap EXCEPT !.sdkUser = NoUser,
               !.events = IF ap.sdkUser # NoUser THEN Append(@, NoUser) ELSE @,
               !.signOuts = @ + 1]

\* A faulty variant of ClickLogout: a listener of the button calls signOut.
ClickLogoutSignsOut ==
    /\ pc = "app"
    /\ "logoutButton" \in ui.els
    /\ app.logoutClicks < MaxClicks
    /\ app' = [signOut(app) EXCEPT !.logoutClicks = @ + 1, !.last = "ClickLogout"]
    /\ UNCHANGED <<pc, scriptVars, ui, auth>>

\* A click on the logout button, which has no listener.
ClickLogout ==
    /\ pc = "app"
    /\ "logoutButton" \in ui.els
    /\ app.logoutClicks < MaxClicks
    /\ app' = [app EXCEPT !.logoutClicks = @ + 1, !.last = "ClickLogout"]
    /\ UNCHANGED <<pc, scriptVars, ui, auth>>

NextApp ==
    \/ ClickLogin
    \/ \E i \in 1..MaxClicks : PopupSignedIn(i, Ada)
    \/ \E i \in 1..MaxClicks : PopupResolve(i)
    \/ \E i \in 1..MaxClicks, settled \in OddSettlements : PopupSettle(i, settled)
    \/ AuthEvent
    \/ SdkSignedOut
    \/ ClickLogout

SpecApp == InitApp /\ [][NextApp]_vars

(***************************************************************************)
(* From .env to the login button: the configuration of the page is the     *)
(* source of firebase-config.js through the Environment Injector.          *)
(***************************************************************************)
\* What .env says of a key: no line, a line without value, a line with one.
EnvChoices == [ConfigFields -> {"absent", "empty", "set"}]

\* The text of .env for a choice, from the k-th field on.
RECURSIVE EnvText(_, _)
EnvText(choice, k) ==
    LET AllFields == requiredFields \o <<"measurementId">>
        EnvLine(field) ==
            CASE choice[field] = "absent" -> <<>>
              [] choice[field] = "empty" -> KeyOf(field) \o <<"=", "\n">>
              [] choice[field] = "set" -> KeyOf(field) \o <<"=", "v", "\n">>
    IN  IF k > Len(AllFields) THEN <<>>
        ELSE EnvLine(AllFields[k]) \o EnvText(choice, k + 1)

InitConfig ==
    /\ pc = "config"
    /\ envFile \in { EnvText(choice, 1) : choice \in EnvChoices }
    /\ envVars = <<>>
    /\ ui = NoPage
    /\ auth = NoAuth
    /\ app = NoApp
    /\ content = NoString
    /\ result = Tagged(<<>>)
    /\ loaded = <<>>
    /\ fs = <<>>
    /\ before = <<>>
    /\ exit = 0
    /\ out = {}
    /\ firstOut = <<>>
    /\ runs = 0
    /\ streak = 0

\* The build injects the values of .env into firebase-config.js, and the page,
\* which has every element, is opened: new App() and init() with that configuration.
InjectConfig ==
    /\ pc = "config"
    /\ pc' = "app"
    /\ envVars' = parseEnvFile(envFile)
    /\ app' = NewApp(InjectedConfig(envVars'), NoUser)
    /\ ui' = CHOOSE p \in AppPages : p.els = ElementIds
    /\ auth' = onAuthStateChanged(NewAuthModule, "listener")
    /\ UNCHANGED <<content, result, envFile, loaded, fs, before, exit, out, firstOut, runs, streak>>

NextConfig == InjectConfig \/ ClickLogin

SpecConfig == InitConfig /\ [][NextConfig]_vars

(***************************************************************************)
(* Claims about replacePlaceholders.                                       *)
(***************************************************************************)
\* What the contract describes: one pass over the content in which every
\* occurrence of {{KEY}}, KEY a key of the mapping, gives way to that key's
\* value string, and every other character is kept.
RECURSIVE SubstitutedFrom(_, _, _)
SubstitutedFrom(cont, env, i) ==
    IF i > Len(cont) THEN <<>>
    ELSE LET hits == { k \in DOMAIN env : OccursAt(Placeholder(env[k].key), cont, i) }
         IN  IF hits = {} THEN <<cont[i]>> \o SubstitutedFrom(cont, env, i + 1)
             ELSE env[Min(hits)].value
                  \o SubstitutedFrom(cont, env, i + Len(Placeholder(env[Min(hits)].key)))

\* C1: for every content and mapping, the result of replacePlaceholders is
\* the content with every occurrence of {{KEY}} replaced by exactly the key's
\* value string, every other character unchanged.
C1_ReplacesByExactValue ==
    pc = "replaced" => result.s = SubstitutedFrom(content, envVars, 1)

\* The original characters of the result keep their order, and each is the
\* character of the content it comes from.
OriginsInOrder ==
    /\ Len(result.o) = Len(result.s)
    /\ \A a, b \in DOMAIN result.o :
          (a < b /\ result.o[a] # 0 /\ result.o[b] # 0) => result.o[a] < result.o[b]
    /\ \A a \in DOMAIN result.o :
          result.o[a] # 0 => result.s[a] = content[result.o[a]]

\* The characters i..j of the content stand, adjacent and in order, in the result.
Survives(i, j) ==
    \E q \in DOMAIN result.o :
        /\ q + (j - i) <= Len(result.o)
        /\ \A d \in 0..(j - i) : result.o[q + d] = i + d

UnknownTokens == { sp \in TokenSpans(content) : TokenName(content, sp) \notin KeysOf(envVars) }

\* C7: every occurrence of {{NAME}} in the content whose NAME is not a key of
\* the mapping stands unchanged in the result, at the position that
\* corresponds to it (between the same original characters).
C7_UnknownTokensVerbatim ==
    pc = "replaced" =>
        /\ OriginsInOrder
        /\ \A sp \in UnknownTokens : Survives(sp[1], sp[2])

\* A run that replaced a known token next to an unknown one.
C7_Witness ==
    /\ pc = "replaced"
    /\ content = Placeholder(<<"A">>) \o Placeholder(<<"U">>)
    /\ envVars = <<[key |-> <<"A">>, value |-> <<"x">>]>>
    /\ result.s = <<"x">> \o Placeholder(<<"U">>)

\* The indexes of the content inside a literal occurrence of a key's placeholder.
LiteralCover ==
    { i \in 1..Len(content) :
        \E k \in DOMAIN envVars : \E p \in 1..i :
            /\ OccursAt(Placeholder(envVars[k].key), content, p)
            /\ i <= p + Len(Placeholder(envVars[k].key)) - 1 }

\* C8: keys are matched literally.  A content with no literal occurrence of
\* any key's placeholder is returned unchanged (a token a key matches only as
\* a pattern stays), and with a single key every character outside the literal
\* occurrences of its placeholder is kept.
C8_KeysMatchLiterally ==
    pc = "replaced" =>
        /\ (LiteralCover = {} => result.s = content)
        /\ (Len(envVars) = 1 =>
               \A i \in (1..Len(content)) \ LiteralCover : Survives(i, i))

\* Key A.B: {{AxB}} stays and {{A.B}} is replaced.
C8_Witness ==
    /\ pc = "replaced"
    /\ envVars = <<[key |-> <<"A", ".", "B">>, value |-> <<"x">>]>>
    /\ content = Placeholder(<<"A", "x", "B">>) \o Placeholder(<<"A", ".", "B">>)
    /\ result.s = Placeholder(<<"A", "x", "B">>) \o <<"x">>

(***************************************************************************)
(* Claims about loadEnvFile.                                               *)
(***************************************************************************)
FileLines == split(envFile, "\n")

FirstEquals(t) == Min({ i \in 1..Len(t) : t[i] = "=" })

\* A line that after trimming is non-empty, does not start with # and
\* contains at least one `=`.
IsPairLine(n) ==
    LET t == trim(FileLines[n])
    IN  t # <<>> /\ t[1] # "#" /\ \E i \in 1..Len(t) : t[i] = "="

\* The trimmed text before, and after, the first `=` of the trimmed line.
LineKey(n)   == LET t == trim(FileLines[n]) IN trim(SubSeq(t, 1, FirstEquals(t) - 1))
LineValue(n) == LET t == trim(FileLines[n]) IN trim(SubSeq(t, FirstEquals(t) + 1, Len(t)))

\* Such a line with some text before the first `=`.
IsKeyedLine(n) == IsPairLine(n) /\ trim(FileLines[n])[1] # "="

\* The mapping holds, for each line of the set L, the line's key with the
\* value of the last line of L that has this key, and nothing else.
HoldsExactly(L) ==
    /\ \A n \in L : \E k \in DOMAIN loaded :
          /\ loaded[k].key = LineKey(n)
          /\ loaded[k].value = LineValue(Max({ m \in L : LineKey(m) = LineKey(n) }))
    /\ \A k \in DOMAIN loaded : \E n \in L : loaded[k].key = LineKey(n)

\* C9 as stated: every non-blank, non-comment line with an `=` gives an
\* entry (trimmed key before the first `=`, trimmed value after it); the
\* other lines give none.
C9_EveryPairLineHasEntry ==
    pc = "loaded" => HoldsExactly({ n \in DOMAIN FileLines : IsPairLine(n) })

\* C9 amended: the lines that give an entry are those that, trimmed, are
\* non-empty, do not start with #, contain an `=` and have some text before
\* the first `=`; a line that starts with `=` gives none.
C9_KeyedLinesHaveEntries ==
    pc = "loaded" => HoldsExactly({ n \in DOMAIN FileLines : IsKeyedLine(n) })

\* A file with spaces around the key, a value holding an `=`, and a comment.
C9_Witness ==
    /\ pc = "loaded"
    /\ envFile = <<" ", "A", " ", "=", " ", "x", "=", "y", " ", "\n", "#", "A", "=", "x">>
    /\ loaded = <<[key |-> <<"A">>, value |-> <<"x", "=", "y">>]>>

\* C10: a key that stands on several valid lines has exactly one entry,
\* whose value is that of the last of these lines.
C10_LastValueWins ==
    pc = "loaded" =>
        \A n, m \in DOMAIN FileLines :
            (n < m /\ IsKeyedLine(n) /\ IsKeyedLine(m) /\ LineKey(n) = LineKey(m)) =>
                /\ Cardinality({ k \in DOMAIN loaded : loaded[k].key = LineKey(n) }) = 1
                /\ \A k \in DOMAIN loaded :
                      loaded[k].key = LineKey(n) =>
                          loaded[k].value =
                              LineValue(Max({ l \in DOMAIN FileLines :
                                                IsKeyedLine(l) /\ LineKey(l) = LineKey(n) }))

\* The key A set to x and then to y.
C10_Witness ==
    /\ pc = "loaded"
    /\ envFile = <<"A", "=", "x", "\n", "A", "=", "y">>
    /\ loaded = <<[key |-> <<"A">>, value |-> <<"y">>]>>

(***************************************************************************)
(* Claims about the Asset Copier.                                          *)
(***************************************************************************)
\* A run of the copier has ended and its source directory did not exist.
CopiedWithoutSource == pc = "copied" /\ ~existsSync(before, SrcAssets)

\* C2 as stated: with the source directory missing, a run changes nothing at
\* the destination location, also when that did not exist, and raises no
\* exception.
C2_NoDestinationChange ==
    CopiedWithoutSource =>
        /\ exit = 0
        /\ Subtree(fs, DestAssets) = Subtree(before, DestAssets)

\* C2 amended: with the source directory missing, a run raises no exception
\* and creates, modifies or deletes no file; the one change it can make is to
\* create the destination directory, empty, with its missing parent, when it
\* did not exist.
C2_OnlyCreatesDestinationDirectory ==
    CopiedWithoutSource =>
        /\ exit = 0
        /\ \A p \in DOMAIN before : p \in DOMAIN fs /\ fs[p] = before[p]
        /\ \A p \in DOMAIN fs \ DOMAIN before : IsWithin(DestAssets, p) /\ fs[p] = Dir
        /\ existsSync(before, DestAssets) => fs = before

\* A run without source and without destination: the destination now exists, empty.
C2_Witness ==
    /\ CopiedWithoutSource
    /\ ~existsSync(before, DestAssets)
    /\ Subtree(fs, DestAssets) = (<<>> :> Dir)
    /\ out = {"warn: source not found"}

\* C3: after a run that completes, every file of the source tree, at any
\* depth, whose name is not README.md has a file of the same content at the
\* same relative path of the destination, and at the path of a source file
\* named README.md the run has created no file.
C3_MirrorsEveryFile ==
    (pc = "copied" /\ exit = 0) =>
        \A q \in DOMAIN Subtree(before, SrcAssets) :
            (q # <<>> /\ before[SrcAssets \o q].kind = "file") =>
                IF q[Len(q)] # "README.md"
                THEN /\ existsSync(fs, DestAssets \o q)
                     /\ fs[DestAssets \o q] = before[SrcAssets \o q]
                ELSE (existsSync(fs, DestAssets \o q) /\ fs[DestAssets \o q].kind = "file") =>
                        /\ existsSync(before, DestAssets \o q)
                        /\ before[DestAssets \o q] = fs[DestAssets \o q]

(***************************************************************************)
(* Claims about the Environment Injector.                                  *)
(***************************************************************************)
\* C4: without a .env file main() ends with exit status 1 after printing an
\* error, and nothing below public (the destination and its parent) has been
\* created, modified or deleted.
C4_NoEnvExitsBeforeAnyChange ==
    (pc = "injected" /\ ~existsSync(before, EnvPath)) =>
        /\ exit = 1
        /\ out = {"error: .env not found"}
        /\ Subtree(fs, <<"public">>) = Subtree(before, <<"public">>)

\* A run without .env over a destination that held a file: the file is still there.
C4_Witness ==
    /\ pc = "injected"
    /\ ~existsSync(before, EnvPath)
    /\ exit = 1
    /\ \E p \in DOMAIN fs : IsWithin(p, DestJs) /\ fs[p] = File(OldData)

\* C5: after a successful run, whatever the destination held before, every
\* file and directory of the destination has a counterpart at the same
\* relative path of the source tree.
C5_NothingStaleAfterRun ==
    (pc = "injected" /\ exit = 0) =>
        \A q \in DOMAIN Subtree(fs, DestJs) : existsSync(fs, SrcJs \o q)

\* A successful run over a destination that held a file the source has not.
C5_Witness ==
    /\ pc = "injected"
    /\ exit = 0
    /\ \E q \in DOMAIN Subtree(before, DestJs) :
         /\ before[DestJs \o q] = File(OldData)
         /\ ~existsSync(before, SrcJs \o q)
         /\ ~existsSync(fs, DestJs \o q)

\* C6: successful runs over the same source tree and .env, started from
\* different destinations, leave the same destination tree: every successful
\* run leaves the tree the first successful run left.
C6_SameDestinationFromAnyPrior ==
    (pc = "injected" /\ exit = 0) => Subtree(fs, DestJs) = firstOut

\* A second successful run, started from a destination that differs from
\* what the first run left and from what the first run started from.
C6_Witness ==
    /\ pc = "injected"
    /\ exit = 0
    /\ runs = 2
    /\ Subtree(before, DestJs) # firstOut
    /\ \E p \in DOMAIN before : IsWithin(p, DestJs) /\ before[p] = File(OldData)
    /\ \E p \in DOMAIN fs : IsWithin(p, DestJs) /\ fs[p].kind = "file"
    /\ Subtree(fs, DestJs) = firstOut

(***************************************************************************)
(* Claims about the tree walk and the end of main.                         *)
(***************************************************************************)
\* The run of the Environment Injector that just ended got through processFiles.
Processed == pc = "injected" /\ "log: injected" \in out

\* The mapping the last run loaded.
EnvBefore == parseEnvFile(before[EnvPath].data)

LoadFails(f) == ~existsSync(f, EnvPath) \/ f[EnvPath].kind # "file"

\* processFiles raises: the source directory is missing or is not a directory,
\* or the parent of the target is a file.
ProcessFails(f) ==
    \/ ~existsSync(f, SrcJs)
    \/ f[SrcJs].kind # "dir"
    \/ (existsSync(f, Parent(DestJs)) /\ f[Parent(DestJs)].kind # "dir")

\* The check after the run raises: what it reads is a directory.
CheckFails(f) ==
    /\ existsSync(f, SrcJs \o <<"modules", "firebase.js">>)
    /\ f[SrcJs \o <<"modules", "firebase.js">>].kind = "dir"

\* C12: main() ends with exit status 1 whenever loading .env, cleaning the
\* destination, processing the files or the check after the run raises an
\* error, which is logged, and with 0 otherwise; no error leaves main()
\* uncaught.
C12_ExitStatusTellsFailure ==
    pc = "injected" =>
        /\ exit = (IF LoadFails(before) \/ ProcessFails(before) \/ CheckFails(before)
                   THEN 1 ELSE 0)
        /\ exit = 1 => out \cap {"error: .env not found", "error: injecting"} # {}
        /\ "uncaught exception" \notin out

\* The check after a run raised, and the run ended with status 1.
C12_Witness ==
    /\ Processed
    /\ CheckFails(before)
    /\ exit = 1
    /\ "error: injecting" \in out

\* What processFiles writes from the source of the last run.
Written ==
    [q \in DOMAIN Subtree(before, SrcJs) |->
        IF before[SrcJs \o q].kind = "dir" THEN Dir
        ELSE File(replacePlaceholders(before[SrcJs \o q].data, EnvBefore).s)]

Warned == "warn: placeholders not replaced" \in out

\* The output file the check reads exists and holds `{{`.
LeftOver ==
    /\ existsSync(fs, FirebaseFile)
    /\ fs[FirebaseFile].kind = "file"
    /\ includes(fs[FirebaseFile].data, <<"{", "{">>)

\* C13 as it was stated: after processing, main() prints the warning exactly
\* when the output file modules/firebase.js exists in the destination and
\* holds `{{`; printed or not, the run ends with exit status 0 and the
\* destination tree is left as it was written.
C13_WarningNeverFails ==
    Processed =>
        /\ Warned <=> LeftOver
        /\ exit = 0
        /\ Subtree(fs, DestJs) = Written

\* C13, amended: after processing, main() prints the warning exactly when the
\* output file modules/firebase.js exists in the destination and holds `{{`;
\* printed or not, the destination tree is left as it was written, and the
\* run ends with exit status 0 unless modules/firebase.js is a directory of
\* the destination, when reading it raises and the run ends with status 1.
C13_WarningOnlyWarns ==
    Processed =>
        /\ Warned <=> LeftOver
        /\ Subtree(fs, DestJs) = Written
        /\ exit = (IF existsSync(fs, FirebaseFile) /\ fs[FirebaseFile].kind = "dir"
                   THEN 1 ELSE 0)

\* A run that printed the warning and ended with status 0.
C13_Witness ==
    /\ Processed
    /\ Warned
    /\ fs[FirebaseFile] = File(JsData)
    /\ exit = 0

(***************************************************************************)
(* Claims about running a script again.                                    *)
(***************************************************************************)
\* C14: running main() twice in succession, the source tree and .env
\* unchanged, leaves after the second run a destination tree identical to the
\* one the first run left.
C14_SecondInjectionChangesNothing ==
    (pc = "injected" /\ streak >= 2) =>
        Subtree(fs, DestJs) = Subtree(before, DestJs)

\* A second run in succession that wrote a file again.
C14_Witness ==
    /\ pc = "injected"
    /\ streak >= 2
    /\ exit = 0
    /\ existsSync(before, FirebaseFile)
    /\ fs[FirebaseFile] = File(<<"x">>)

DestFiles == { q \in DOMAIN Subtree(fs, DestAssets) : fs[DestAssets \o q].kind = "file" }

\* The source tree has a file not named README.md at the relative path q.
SourceHasFile(q) ==
    /\ existsSync(before, SrcAssets \o q)
    /\ before[SrcAssets \o q].kind = "file"
    /\ q[Len(q)] # "README.md"

\* The file at the relative path q of the destination was there before the run.
WasThere(q) ==
    /\ existsSync(before, DestAssets \o q)
    /\ before[DestAssets \o q] = fs[DestAssets \o q]

\* C16 as it was stated: after a run of copyAssets that completes, whatever
\* the destination held before, a file exists at a relative path of the
\* destination only if the source tree has a file not named README.md at that
\* relative path.
C16_DestinationIsMirror ==
    (pc = "copied" /\ exit = 0) =>
        \A q \in DestFiles : SourceHasFile(q)

\* C16, amended: after a run of copyAssets that completes, a file exists at a
\* relative path of the destination only if the source tree has a file not
\* named README.md at that relative path, or the file was in the destination
\* before the run and the run left it unchanged.
C16_NewFilesComeFromSource ==
    (pc = "copied" /\ exit = 0) =>
        \A q \in DestFiles : SourceHasFile(q) \/ WasThere(q)

\* A completed run that copied a file next to a file the source does not have.
C16_Witness ==
    /\ pc = "copied"
    /\ exit = 0
    /\ \E q, r \in DestFiles :
          /\ SourceHasFile(q) /\ ~WasThere(q)
          /\ WasThere(r) /\ ~SourceHasFile(r)

\* The file system f has a file at p that holds data.
Holds(f, p, data) == existsSync(f, p) /\ f[p] = File(data)

\* C17: in every run of the Asset Copier and of the Environment Injector with
\* their configured paths, whether the run succeeds or aborts, no file or
\* directory under the source trees is created, modified or deleted.
C17_SourceTreesUntouched ==
    pc \in {"copied", "injected"} =>
        /\ Subtree(fs, SrcAssets) = Subtree(before, SrcAssets)
        /\ Subtree(fs, SrcJs) = Subtree(before, SrcJs)

\* The Environment Injector has run after the Asset Copier, both have
\* written files, and both sources have theirs.
C17_Witness ==
    /\ pc = "injected"
    /\ runs = 2
    /\ streak = 1
    /\ exit = 0
    /\ Holds(fs, SrcAssets \o <<"firebase.js">>, NewData)
    /\ Holds(fs, DestAssets \o <<"firebase.js">>, NewData)
    /\ Holds(fs, SrcJs \o <<"firebase.js">>, JsData)
    /\ Holds(fs, DestJs \o <<"firebase.js">>, <<"x">>)

\* C20: in a build that runs the Asset Copier and then the Environment
\* Injector from the project root, the Injector's recursive delete and rebuild
\* of public/js removes or changes nothing under public/assets: every asset
\* the first stage copied is still there after the second.
C20_InjectorKeepsAssets ==
    pc = "injected" =>
        Subtree(fs, DestAssets) = Subtree(before, DestAssets)

\* The Asset Copier has copied a file, then the Environment Injector has
\* removed a destination of an earlier build and written its own.
C20_Witness ==
    /\ pc = "injected"
    /\ runs = 2
    /\ streak = 1
    /\ exit = 0
    /\ Holds(before, DestAssets \o <<"modules", "firebase.js">>, NewData)
    /\ Holds(fs, DestAssets \o <<"modules", "firebase.js">>, NewData)
    /\ Holds(before, DestJs \o <<"firebase.js">>, OldData)
    /\ Holds(fs, DestJs \o <<"firebase.js">>, <<"x">>)

(***************************************************************************)
(* Claims about the avatar.                                                *)
(***************************************************************************)
\* C18: after updateAuthUI(user) with a user, the source of the avatar is the
\* user's photoURL when it is set and the default avatar URL when it is
\* missing; when the image fails to load, the error handler sets the source
\* of the avatar to the default avatar URL.
C18_AvatarFallsBack ==
    (pc = "page" /\ "userAvatar" \in ui.els) =>
        /\ (ui.event = "update" /\ ui.user # NoUser) =>
               ui.src = (IF ui.user.photoURL = PhotoURL THEN PhotoURL ELSE defaultAvatarURL)
        /\ (ui.event = "error" /\ ui.user # NoUser) => ui.src = defaultAvatarURL

\* The photo of the user did not load, the default avatar did.
C18_Witness ==
    /\ pc = "page"
    /\ ui.user \in Users
    /\ ui.user.photoURL = PhotoURL
    /\ ui.reloads = 1
    /\ ui.src = defaultAvatarURL
    /\ ui.event = "load"

\* C19: when the default avatar itself fails to load, onerror does not assign
\* the source again, also when the element gives its source as a resolved
\* absolute URL and the default avatar URL is a path.
C19_NoReloadOfDefault ==
    pc = "page" => ~ui.again

(***************************************************************************)
(* Claims about the order of the keys.                                     *)
(***************************************************************************)
\* The mappings that hold the pairs of env, inserted in any order.
Reordered(env) ==
    { [i \in DOMAIN env |-> env[p[i]]] :
        p \in { q \in [DOMAIN env -> DOMAIN env] : \A i, j \in DOMAIN env : i # j => q[i] # q[j] } }

\* C21: for every content and every two mappings that hold the same pairs
\* inserted in different orders, the results of replacePlaceholders are equal;
\* a value that holds {{OTHER}} for another key of the mapping is inserted as
\* it is and not substituted again.
C21_KeyOrderIndependent ==
    pc = "replaced" =>
        \A m \in Reordered(envVars) : replacePlaceholders(content, m).s = result.s

(***************************************************************************)
(* Claims about AuthModule.                                                *)
(***************************************************************************)
\* One invocation with user of every registration of cbs, in order.
EachOnce(cbs, user) ==
    [i \in DOMAIN cbs |-> [id |-> cbs[i].id, fn |-> cbs[i].fn, user |-> user]]

\* C22: on every auth-state event the SDK delivers, AuthModule sets
\* currentUser to the delivered user and invokes each callback registered at
\* the start of the dispatch exactly once with that user, in registration
\* order, also when a callback calls its own or another callback's
\* unsubscribe function during the dispatch.
C22_DispatchReachesEveryCallback ==
    (pc = "auth" /\ auth.event = "deliver") =>
        /\ auth.currentUser = auth.arg
        /\ auth.log = EachOnce(auth.prev, auth.arg)

\* C23: calling the function returned by onAuthStateChanged(cb) removes
\* exactly the registration that call made; calling it again has no effect,
\* and it never removes a registration of another onAuthStateChanged call,
\* also when the same callback function was registered more than once.
C23_UnsubscribeRemovesOwnRegistration ==
    (pc = "auth" /\ auth.event = "unsubscribe") =>
        auth.authStateCallbacks = SelectSeq(auth.prev, LAMBDA r : r.id # auth.arg)

\* C24: a callback registered after the SDK has delivered the auth state is
\* invoked at once with that state, both when a user is signed in and when
\* the SDK has reported that no user is signed in.
C24_LateSubscriberIsInvoked ==
    (pc = "auth" /\ auth.event = "register" /\ auth.delivered) =>
        auth.log = <<[id |-> auth.arg, fn |-> auth.regs[auth.arg], user |-> auth.currentUser]>>

(***************************************************************************)
(* Claims about the buttons.                                               *)
(***************************************************************************)
Displayed(display) == display # "none"

\* C27: after every call of updateAuthUI(user), the five elements present,
\* the login button is displayed exactly when user is null, and the logout
\* button and the user-info block exactly when user is not null; the login
\* and logout buttons are never both displayed nor both hidden.
C27_LoginOrLogout ==
    (pc = "page" /\ ui.els = ElementIds /\ ui.updates > 0) =>
        /\ {ui.login, ui.logout, ui.info} \subseteq {"block", "none"}
        /\ Displayed(ui.login) <=> ui.user = NoUser
        /\ Displayed(ui.logout) <=> ui.user # NoUser
        /\ Displayed(ui.info) <=> ui.user # NoUser
        /\ Displayed(ui.login) # Displayed(ui.logout)

\* A user signed in and then out.
C27_Witness ==
    /\ pc = "page"
    /\ ui.els = ElementIds
    /\ ui.updates = 2
    /\ ui.user = NoUser
    /\ ui.name = "Ada"
    /\ ui.login = "block"
    /\ ui.logout = "none"
(***************************************************************************)
(* Claims about App.                                                       *)
(***************************************************************************)

\* The classes of a status of a type.
StatusOf(type) == <<"status", type>>

\* The login handler has just run to its end.
HandlerEnded ==
    \/ app.last \in {"PopupResolve", "PopupSettle"}
    \/ app.last = "ClickLogin" /\ validateFirebaseConfig(app.config).threw

\* C25: every click on the login button first shows "Initializing
\* sign-in..." with type loading; once validation has thrown or the popup
\* promise has settled, with any value, the handler has set a status of type
\* success or error, and the handler never rejects.
C25_SignInLeavesLoading ==
    pc = "app" =>
        /\ app.rejected = 0
        /\ (app.last = "ClickLogin" /\ ~HandlerEnded /\ "status" \in ui.els) =>
               /\ ui.statusText = <<"Initializing sign-in...">>
               /\ ui.statusClass = StatusOf("loading")
        /\ (HandlerEnded /\ "status" \in ui.els) =>
               ui.statusClass \in {StatusOf("success"), StatusOf("error")}

\* What the claim calls the final UI state: the login button, the logout
\* button, the user info and the visibility of the status element.
FinalUI(u) == <<u.login, u.logout, u.info, u.statusDisplay>>

\* The popup i has a signed-in user whose auth state is the next to deliver:
\* the resolution of the promise and the delivery can come in either order.
BothPending(i) ==
    /\ app.popups[i].state = "signed"
    /\ app.events # <<>>
    /\ Head(app.events) = app.popups[i].user

ResolvedThenDelivered(i) ==
    Listener(HandlerAfter(ui, Resolved(UserCredential(app.popups[i].user))).ui,
             app.popups[i].user)

DeliveredThenResolved(i) ==
    HandlerAfter(Listener(ui, app.popups[i].user),
                 Resolved(UserCredential(app.popups[i].user))).ui

\* C26: after a successful sign-in, once the popup promise has resolved and
\* the auth-state event has been delivered, the final UI state is the same
\* whichever of the two happened first.
C26_OrderIndependent ==
    pc = "app" =>
        \A i \in DOMAIN app.popups :
            BothPending(i) =>
                FinalUI(ResolvedThenDelivered(i)) = FinalUI(DeliveredThenResolved(i))

\* The UI shows a signed-in user.
Authenticated(u) == u.user # NoUser

\* C28: no handler of App calls AuthModule.signOut, a click on the logout
\* button runs no listener (it changes neither the UI, nor the AuthModule,
\* nor the user of the SDK, nor the auth states to deliver), and the UI goes
\* from authenticated to unauthenticated only by the delivery of an
\* auth-state event of the SDK with no user.
C28_NoSignOutPath ==
    [][ pc = "app" =>
          /\ app'.signOuts = 0
          /\ app'.logoutClicks # app.logoutClicks =>
                 /\ ui' = ui
                 /\ auth' = auth
                 /\ app'.sdkUser = app.sdkUser
                 /\ app'.events = app.events
          /\ (Authenticated(ui) /\ ~Authenticated(ui')) =>
                 /\ app.events # <<>>
                 /\ Head(app.events) = NoUser
                 /\ app'.events = Tail(app.events)
                 /\ auth'.deliveries = auth.deliveries + 1 ]_vars

\* The logout button of an authenticated UI was clicked, the user stayed
\* signed in, and later the SDK lost its user and delivered it: the UI is
\* unauthenticated again.
C28_Witness ==
    /\ pc = "app"
    /\ "logoutButton" \in ui.els
    /\ app.logoutClicks > 0
    /\ app.sdkSignOuts > 0
    /\ app.signOuts = 0
    /\ app.last = "AuthEvent"
    /\ app.events = <<>>
    /\ ~Authenticated(ui)
    /\ ui.logout = "none"
    /\ auth.deliveries >= 2

\* A required field of the configuration is empty.
SomeRequiredEmpty(config) ==
    \E k \in DOMAIN requiredFields : config[requiredFields[k]] = <<>>

\* C29: validateFirebaseConfig throws "Firebase configuration incomplete"
\* exactly when one of the six required fields is empty and returns
\* otherwise; a field whose key is absent from .env is left as the token
\* {{KEY}} and passes validation, so that the login handler goes on to the
\* sign-in popup.
C29_PlaceholdersPassValidation ==
    pc = "app" =>
        LET valid == validateFirebaseConfig(app.config)
        IN  /\ valid.threw <=> SomeRequiredEmpty(app.config)
            /\ valid.threw => /\ valid.error.kind = "Error"
                              /\ includes(valid.error.message.text, <<ConfigIncomplete>>)
            /\ \A field \in ConfigFields :
                   KeyOf(field) \notin KeysOf(envVars) =>
                       /\ app.config[field] = Placeholder(KeyOf(field))
                       /\ ~Falsy(app.config[field])
            /\ app.clicks > 0 =>
                   IF SomeRequiredEmpty(app.config)
                   THEN /\ app.popups = <<>>
                        /\ ui.statusClass = StatusOf("error")
                        /\ ui.statusText =
                               <<"Please update firebase-config.js with your Firebase project details.">>
                   ELSE /\ Len(app.popups) = app.clicks
                        /\ ui.statusClass = StatusOf("loading")

\* No line of .env gives a key of a required field, no required field is
\* empty, and a click on the login button has opened the popup.
C29_Witness ==
    /\ pc = "app"
    /\ \E k \in DOMAIN requiredFields :
           /\ KeyOf(requiredFields[k]) \notin KeysOf(envVars)
           /\ app.config[requiredFields[k]] = Placeholder(KeyOf(requiredFields[k]))
    /\ \E k \in DOMAIN requiredFields :
           KeyOf(requiredFields[k]) \in KeysOf(envVars)
    /\ app.clicks > 0
    /\ app.popups # <<>>

====
